---- MODULE Spec2Model ----
(***************************************************************************)
(* A model of ssg.py: the template resolver, the page builder, the site    *)
(* builder and the watch loop with its background server.                  *)
(*                                                                         *)
(* Text is a sequence of tokens: a piece of literal text, an include       *)
(* directive or a variable directive (the three things the two regular     *)
(* expressions of the resolver tell apart).  A path is a sequence of       *)
(* components and a component is the sequence of its dot-separated         *)
(* segments, so "blog/post1.html" is << <<"blog">>, <<"post1","html">> >>. *)
(***************************************************************************)
EXTENDS Integers, Sequences, FiniteSets, TLC

VARIABLES
  pgIn, pgOut,                       \* the page builder alone: its input, its result
  content_dir, static, writable,       \* the site directory: content files, assets/extra, permissions
  output, outDir,                    \* the output tree and the identity of its directory
  bpc, caller, walk, built_pages,    \* SSG.build: position, who called it, files left, page list
  errors, buildNo, doneNo, prior,    \* history: files that raised, builds started and completed,
  edits,                             \*   paths before the clean, edits made
  HAS_WATCHDOG, wpc, clock,          \* SSG.watch: monitoring mode, position of the main thread, time
  queue, hpc, now, last_build,       \* the observer's event queue and SSGEventHandler
  handled,                           \* history: the last events the handler decided
  mtime, current_max, last_mtime,    \* polling: modification times and the loop's locals
  wake,
  srv, cwd, served                   \* SSG.serve: the thread, the working directory, the last answer

pageVars == <<pgIn, pgOut>>
siteVars == <<content_dir, static, writable>>
buildVars == <<output, outDir, bpc, caller, walk, built_pages, errors, buildNo, doneNo, prior>>
watchVars == <<HAS_WATCHDOG, wpc, clock, queue, hpc, now, last_build, handled,
               mtime, current_max, last_mtime, wake>>
serveVars == <<srv, cwd, served>>
vars == <<pageVars, siteVars, buildVars, edits, watchVars, serveVars>>

\* ------------------------------------------------------------------ bounds
RecursionLimit == 3
MaxBodyLen == 2
MaxLines == 2
MaxEdits == 2
MaxBuilds == 3
MaxTime == 4
MaxQueue == 1
\* The clock counts ticks; this many make one second.
TicksPerSecond == 2

\* ------------------------------------------------------------------ text
Txt(s) == [t |-> "txt", a |-> s, d |-> ""]
Inc(n) == [t |-> "inc", a |-> n, d |-> ""]
Var(n, dflt) == [t |-> "var", a |-> n, d |-> dflt]

Str(s) == IF s = "" THEN <<>> ELSE <<Txt(s)>>

\* The files of the layouts directory.
layouts_dir ==
  [n \in {"base.html", "header.html", "wrap.html", "loop.html", "a.html", "b.html"} |->
     CASE n = "base.html"   -> <<Var("content", ""), Txt(" - "), Var("title", "")>>
       [] n = "header.html" -> <<Txt("<h1>"), Var("title", "Untitled")>>
       [] n = "wrap.html"   -> <<Inc("header.html"), Var("content", "")>>
       [] n = "loop.html"   -> <<Txt("x"), Inc("loop.html")>>
       [] n = "a.html"      -> <<Inc("b.html")>>
       [] n = "b.html"      -> <<Txt("b"), Inc("a.html")>>]

Ok(s) == [err |-> "", out |-> s]
Raise(e) == [err |-> e, out |-> <<>>]

\* process_includes, called at nesting depth `depth`.  The code has no guard of
\* its own: the nesting ends when the interpreter's frame limit is reached and
\* the interpreter raises RecursionError.
RECURSIVE process_includes_at(_, _)
process_includes_at(content, depth) ==
  IF depth > RecursionLimit THEN Raise("RecursionError")
  ELSE IF content = <<>> THEN Ok(<<>>)
  ELSE LET h == Head(content)
           first == IF h.t = "inc"
                    THEN IF h.a \in DOMAIN layouts_dir
                         THEN process_includes_at(layouts_dir[h.a], depth + 1)
                         ELSE Ok(<<>>)
                    ELSE Ok(<<h>>)
       IN IF first.err # "" THEN first
          ELSE LET rest == process_includes_at(Tail(content), depth)
               IN IF rest.err # "" THEN rest ELSE Ok(first.out \o rest.out)

process_includes(content) == process_includes_at(content, 1)

RECURSIVE process_variables(_, _)
process_variables(content, variables) ==
  IF content = <<>> THEN <<>>
  ELSE LET h == Head(content)
           first == IF h.t = "var"
                    THEN IF h.a \in DOMAIN variables THEN variables[h.a] ELSE Str(h.d)
                    ELSE <<h>>
       IN first \o process_variables(Tail(content), variables)

\* ------------------------------------------------------------------ front matter
EmptyMeta == [k \in {} |-> <<>>]
Put(md, k, v) == [x \in (DOMAIN md) \cup {k} |-> IF x = k THEN v ELSE md[x]]

Line(k, v) == [colon |-> TRUE, key |-> k, value |-> v]
NoColon == [colon |-> FALSE, key |-> "", value |-> <<>>]

RECURSIVE manual_parse(_, _)
manual_parse(lines, metadata) ==
  IF lines = <<>> THEN metadata
  ELSE manual_parse(Tail(lines),
                    IF Head(lines).colon
                    THEN Put(metadata, Head(lines).key, Head(lines).value)
                    ELSE metadata)

\* A raw file: whether it decodes as UTF-8, whether it opens with a
\* front-matter block, the lines of the block and the text after it.
parse_frontmatter(raw) ==
  IF raw.fm THEN [metadata |-> manual_parse(raw.lines, EmptyMeta), body |-> raw.body]
  ELSE [metadata |-> EmptyMeta, body |-> raw.body]

\* ------------------------------------------------------------------ paths
IndexHtml == <<"index", "html">>
PathName(p) == p[Len(p)]
Parent(p) == SubSeq(p, 1, Len(p) - 1)

\* str.endswith('.html') of a file name
EndsWithHtml(name) == Len(name) >= 2 /\ name[Len(name)] = "html"

\* pathlib's PurePath.suffix: the text from the last dot, unless the dot is the
\* first or the last character of the name.
HasSuffix(name) ==
  /\ Len(name) >= 2
  /\ name[Len(name)] # ""
  /\ ~(Len(name) = 2 /\ name[1] = "")

with_suffix_empty(p) ==
  IF HasSuffix(PathName(p))
  THEN [p EXCEPT ![Len(p)] = SubSeq(PathName(p), 1, Len(PathName(p)) - 1)]
  ELSE p

OutputRelPathNested(rel_path) == with_suffix_empty(rel_path) \o <<IndexHtml>>

output_rel_path(rel_path) ==
  IF PathName(rel_path) = IndexHtml THEN rel_path
  ELSE with_suffix_empty(rel_path) \o <<IndexHtml>>

\* ------------------------------------------------------------------ page builder
PageError(e) == [err |-> e, path |-> <<>>, html |-> <<>>, meta |-> EmptyMeta]

\* The name a metadata value gives when it is joined to the layouts directory.
FileNameOf(v) == IF Len(v) = 1 /\ v[1].t = "txt" THEN v[1].a ELSE ""

LayoutFound(metadata) ==
  /\ "layout" \in DOMAIN metadata
  /\ FileNameOf(metadata["layout"]) \in DOMAIN layouts_dir

\* Lines 120-121: the inner content of a page that has a layout.
InnerContent(body, metadata) ==
  LET inc == process_includes(body)
  IN IF inc.err # "" THEN inc ELSE Ok(process_variables(inc.out, metadata))

\* Lines 139-140: the last two passes over the working body.
FinalVariablesFirst(body, metadata) ==
  process_includes(process_variables(body, metadata))

FinalPasses(body, metadata) ==
  LET pass1 == process_includes(body)
  IN IF pass1.err # "" THEN pass1 ELSE Ok(process_variables(pass1.out, metadata))

build_page(rel_path, raw) ==
  IF ~raw.utf8 THEN PageError("UnicodeDecodeError")
  ELSE
    LET parsed == parse_frontmatter(raw)
        found == LayoutFound(parsed.metadata)
        inner == IF found THEN InnerContent(parsed.body, parsed.metadata) ELSE Ok(<<>>)
    IN IF inner.err # "" THEN PageError(inner.err)
       ELSE
         LET metadata == IF found THEN Put(parsed.metadata, "content", inner.out)
                         ELSE parsed.metadata
             body == IF found THEN layouts_dir[FileNameOf(parsed.metadata["layout"])]
                     ELSE parsed.body
             pass2 == FinalPasses(body, metadata)
         IN IF pass2.err # "" THEN PageError(pass2.err)
            ELSE [err |-> "", path |-> output_rel_path(rel_path),
                  html |-> pass2.out, meta |-> metadata]

\* ------------------------------------------------------------------ the site directory
\* What a content_dir file may hold.
Sources ==
  [k \in {"page", "cyclic", "binary"} |->
     CASE k = "page"   -> [utf8 |-> TRUE, fm |-> TRUE,
                           lines |-> <<Line("layout", Str("base.html")), Line("title", Str("Hi"))>>,
                           body |-> Str("Hello")]
       [] k = "cyclic" -> [utf8 |-> TRUE, fm |-> FALSE, lines |-> <<>>,
                           body |-> <<Txt("see "), Inc("a.html")>>]
       [] k = "binary" -> [utf8 |-> FALSE, fm |-> FALSE, lines |-> <<>>, body |-> <<>>]]

\* Paths under content/.
ContentPaths ==
  { <<IndexHtml>>, << <<"about", "html">> >>, << <<"notes", "txt">> >>,
    << <<"blog">>, IndexHtml >>, << <<"blog">>, <<"post1", "html">> >>,
    << <<"blog">>, <<"post1">>, IndexHtml >> }

InitContent == [p \in { <<IndexHtml>>, << <<"blog">>, <<"post1", "html">> >> } |-> "page"]

Without(f, x) == [y \in (DOMAIN f) \ {x} |-> f[y]]

\* ------------------------------------------------------------------ os.walk
Perms(S) == {s \in [1..Cardinality(S) -> S] : \A i, j \in DOMAIN s : i # j => s[i] # s[j]}

FilesIn(tree, dir) == {p \in DOMAIN tree : Parent(p) = dir}

SubDirs(tree, dir) ==
  {SubSeq(p, 1, Len(dir) + 1) :
     p \in {q \in DOMAIN tree : Len(q) > Len(dir) + 1 /\ SubSeq(q, 1, Len(dir)) = dir}}

\* Top-down: the files of a directory in listing order, then each subdirectory
\* in listing order; the listing order is the file system's.
RECURSIVE WalkOrders(_, _), ConcatWalks(_, _)
WalkOrders(tree, dir) ==
  {fs \o rest : fs \in Perms(FilesIn(tree, dir)),
                rest \in UNION {ConcatWalks(tree, ds) : ds \in Perms(SubDirs(tree, dir))}}

ConcatWalks(tree, ds) ==
  IF ds = <<>> THEN {<<>>}
  ELSE {a \o b : a \in WalkOrders(tree, Head(ds)), b \in ConcatWalks(tree, Tail(ds))}

\* ------------------------------------------------------------------ sitemap
ReplaceIndexHtml(path) == [i \in DOMAIN path |-> IF path[i] = IndexHtml THEN <<"">> ELSE path[i]]

UrlEntry(page) ==
  LET url_path == ReplaceIndexHtml(page.path)
  IN [loc |-> url_path,
      lastmod |-> IF "date" \in DOMAIN page.meta THEN page.meta["date"] ELSE Str("today"),
      priority |-> IF url_path = << <<"">> >> THEN "1.0" ELSE "0.8"]

generate_sitemap(pages) == [i \in DOMAIN pages |-> UrlEntry(pages[i])]

SitemapPath == << <<"sitemap", "xml">> >>
AssetPath == << <<"assets">>, <<"style", "css">> >>
ExtraPath == << <<"robots", "txt">> >>

\* ------------------------------------------------------------------ SSG.build
File(kind, data) == [kind |-> kind, data |-> data, build |-> buildNo]
EmptyTree == [p \in {} |-> File("page", <<>>)]

\* Lines 191-193 when the directory can be replaced.
KeepOutput(tree) == tree

CleanOutput(tree) == EmptyTree

\* Lines 202-216 for one file of the walk: st is the state of the loop.
ProcessFileNoCatch(p, st) ==
  LET r == build_page(p, Sources[content_dir[p]])
  IN IF ~EndsWithHtml(PathName(p)) THEN st
     ELSE IF r.err # "" THEN [st EXCEPT !.bpc = "raised", !.errors = @ \cup {p}]
     ELSE [st EXCEPT !.output = Put(@, r.path, File("page", r.html)),
                     !.built_pages = Append(@, [path |-> r.path, meta |-> r.meta])]

ProcessFile(p, st) ==
  LET r == build_page(p, Sources[content_dir[p]])
  IN IF ~EndsWithHtml(PathName(p)) THEN st
     ELSE IF r.err # "" THEN [st EXCEPT !.errors = @ \cup {p}]
     ELSE [st EXCEPT !.output = Put(@, r.path, File("page", r.html)),
                     !.built_pages = Append(@, [path |-> r.path, meta |-> r.meta])]

StartBuild(who) ==
  /\ bpc = "idle"
  /\ buildNo < MaxBuilds
  /\ bpc' = "clean"
  /\ caller' = who
  /\ buildNo' = buildNo + 1
  /\ prior' = DOMAIN output
  /\ errors' = {}
  /\ UNCHANGED <<output, outDir, walk, built_pages, doneNo>>

\* rmtree, mkdir and the start of os.walk.  The new directory is a new
\* directory: it does not have the identity of the one removed.
BuildClean ==
  /\ bpc = "clean"
  /\ \/ /\ writable
        /\ output' = CleanOutput(output)
        /\ outDir' = buildNo
        /\ built_pages' = <<>>
        /\ walk' \in WalkOrders(content_dir, <<>>)
        /\ bpc' = "walk"
     \/ /\ ~writable
        /\ output' = EmptyTree
        /\ bpc' = "raised"
        /\ UNCHANGED <<outDir, built_pages, walk>>
  /\ UNCHANGED <<caller, errors, buildNo, doneNo, prior>>
  /\ UNCHANGED <<pageVars, siteVars, edits, watchVars, serveVars>>

WalkFile ==
  /\ bpc = "walk"
  /\ walk # <<>>
  /\ LET st == ProcessFile(Head(walk),
                           [bpc |-> bpc, output |-> output,
                            built_pages |-> built_pages, errors |-> errors])
     IN /\ bpc' = st.bpc
        /\ output' = st.output
        /\ built_pages' = st.built_pages
        /\ errors' = st.errors
  /\ walk' = Tail(walk)
  /\ UNCHANGED <<outDir, caller, buildNo, doneNo, prior>>
  /\ UNCHANGED <<pageVars, siteVars, edits, watchVars, serveVars>>

\* Lines 218-231: assets/ is copied to assets/, the items of extra/ to the root.
CopyStatic ==
  /\ bpc = "walk"
  /\ walk = <<>>
  /\ LET withAssets == IF "assets" \in static
                       THEN Put(output, AssetPath, File("asset", <<>>)) ELSE output
     IN output' = IF "extra" \in static
                  THEN Put(withAssets, ExtraPath, File("extra", <<>>)) ELSE withAssets
  /\ bpc' = "sitemap"
  /\ UNCHANGED <<outDir, caller, walk, built_pages, errors, buildNo, doneNo, prior>>
  /\ UNCHANGED <<pageVars, siteVars, edits, watchVars, serveVars>>

GenerateSitemap ==
  /\ bpc = "sitemap"
  /\ output' = Put(output, SitemapPath, File("sitemap", generate_sitemap(built_pages)))
  /\ bpc' = "done"
  /\ doneNo' = buildNo
  /\ UNCHANGED <<outDir, caller, walk, built_pages, errors, buildNo, prior>>
  /\ UNCHANGED <<pageVars, siteVars, edits, watchVars, serveVars>>

BuildStep == BuildClean \/ WalkFile \/ CopyStatic \/ GenerateSitemap

\* ------------------------------------------------------------------ the `build` command
\* main(): one build, then the process ends (with a traceback if build raised).
CliBuild ==
  /\ StartBuild("cli")
  /\ UNCHANGED <<pageVars, siteVars, edits, watchVars, serveVars>>

CliExit ==
  /\ caller = "cli"
  /\ bpc \in {"done", "raised"}
  /\ bpc' = "idle"
  /\ UNCHANGED <<output, outDir, caller, walk, built_pages, errors, buildNo, doneNo, prior>>
  /\ UNCHANGED <<pageVars, siteVars, edits, watchVars, serveVars>>

\* The author's edits between two builds.
WriteFile ==
  /\ bpc = "idle" /\ edits < MaxEdits
  /\ \E p \in ContentPaths, k \in DOMAIN Sources :
       /\ ~(p \in DOMAIN content_dir /\ content_dir[p] = k)
       /\ content_dir' = Put(content_dir, p, k)
  /\ edits' = edits + 1
  /\ UNCHANGED <<static, writable, pageVars, buildVars, watchVars, serveVars>>

RemoveFile ==
  /\ bpc = "idle" /\ edits < MaxEdits
  /\ \E p \in DOMAIN content_dir : content_dir' = Without(content_dir, p)
  /\ edits' = edits + 1
  /\ UNCHANGED <<static, writable, pageVars, buildVars, watchVars, serveVars>>

RenameFile ==
  /\ bpc = "idle" /\ edits < MaxEdits
  /\ \E p \in DOMAIN content_dir, q \in ContentPaths \ DOMAIN content_dir :
       content_dir' = Put(Without(content_dir, p), q, content_dir[p])
  /\ edits' = edits + 1
  /\ UNCHANGED <<static, writable, pageVars, buildVars, watchVars, serveVars>>

Chmod ==
  /\ bpc = "idle" /\ edits < MaxEdits
  /\ writable' = ~writable
  /\ edits' = edits + 1
  /\ UNCHANGED <<content_dir, static, pageVars, buildVars, watchVars, serveVars>>

Edit == WriteFile \/ RemoveFile \/ RenameFile \/ Chmod

\* Paths under the site directory that change while the site is watched.
IndexSrc == <<"content", "index.html">>
BlogDir == <<"content", "blog">>
OutputIndex == <<"_output", "index.html">>
OutputNotes == <<"layouts", "my_output.html">>
WatchFiles == {IndexSrc, OutputIndex, OutputNotes}

InitIdle ==
  /\ HAS_WATCHDOG = FALSE
  /\ wpc = "off"
  /\ clock = 0
  /\ queue = <<>>
  /\ hpc = "off"
  /\ now = 0
  /\ last_build = 0
  /\ handled = <<>>
  /\ mtime = [f \in {} |-> 0]
  /\ current_max = 0
  /\ last_mtime = 0
  /\ wake = 0
  /\ srv = "off"
  /\ cwd = 0
  /\ served = "none"

InitTree ==
  /\ content_dir = InitContent
  /\ writable = TRUE
  /\ output = EmptyTree
  /\ outDir = 0
  /\ bpc = "idle"
  /\ caller = "none"
  /\ walk = <<>>
  /\ built_pages = <<>>
  /\ errors = {}
  /\ buildNo = 0
  /\ doneNo = 0
  /\ prior = {}
  /\ edits = 0

InitSite ==
  /\ InitTree
  /\ InitIdle
  /\ static \in {{}, {"assets", "extra"}}

InitBuild ==
  /\ InitSite
  /\ pgIn = [rel |-> <<IndexHtml>>, raw |-> Sources["page"]]
  /\ pgOut = PageError("none")

NextBuild == CliBuild \/ BuildStep \/ CliExit \/ Edit

SpecBuild == InitBuild /\ [][NextBuild]_vars

\* ------------------------------------------------------------------ SSG.serve
\* The thread changes the working directory of the process to the output
\* directory that exists at that moment, then answers requests.
ServeChdir ==
  /\ srv = "starting"
  /\ IF outDir # 0 THEN cwd' = outDir /\ srv' = "serving"
                   ELSE cwd' = cwd /\ srv' = "dead"
  /\ UNCHANGED served
  /\ UNCHANGED <<pageVars, siteVars, buildVars, edits, watchVars>>

\* What one request reads.  The handler resolves the path from the working
\* directory; a working directory that has been removed resolves to nothing.
Answer ==
  IF bpc # "idle" THEN "busy"
  ELSE IF cwd # outDir THEN "gone"
  ELSE IF {output[p].build : p \in DOMAIN output} = {doneNo} THEN "latest"
  ELSE "other"

Request ==
  /\ srv = "serving"
  /\ served' = Answer
  /\ UNCHANGED <<srv, cwd>>
  /\ UNCHANGED <<pageVars, siteVars, buildVars, edits, watchVars>>

\* ------------------------------------------------------------------ SSG.watch
Max(S) == CHOOSE x \in S : \A y \in S : y <= x
Last2(s) == IF Len(s) > 2 THEN Tail(s) ELSE s

\* '_output' in <string>, for the names of this model.
ContainsOutput(path) == \E i \in DOMAIN path : path[i] \in {"_output", "my_output.html"}

\* The path lies inside the output directory.
InsideOutputDir(path) == path # <<>> /\ path[1] = "_output"

WatchSources ==
  {[src_path |-> IndexSrc, is_directory |-> FALSE],
   [src_path |-> BlogDir, is_directory |-> TRUE],
   [src_path |-> OutputIndex, is_directory |-> FALSE],
   [src_path |-> OutputNotes, is_directory |-> FALSE]}

\* The files the polling loop stats: those whose directory passes line 284.
Scanned == {f \in WatchFiles : ~ContainsOutput(SubSeq(f, 1, Len(f) - 1))}

\* Line 256: the initial build.
WatchStart ==
  /\ wpc = "start"
  /\ StartBuild("watch")
  /\ wpc' = "initial"
  /\ UNCHANGED <<HAS_WATCHDOG, clock, queue, hpc, now, last_build, handled,
                 mtime, current_max, last_mtime, wake>>
  /\ UNCHANGED <<pageVars, siteVars, edits, serveVars>>

\* Lines 259-268 and 278: the server thread is started, then the observer
\* or the polling loop.
WatchSpawn ==
  /\ wpc = "initial" /\ caller = "watch" /\ bpc = "done"
  /\ bpc' = "idle"
  /\ srv' = "starting"
  /\ wpc' = IF HAS_WATCHDOG THEN "observe" ELSE "poll"
  /\ hpc' = IF HAS_WATCHDOG THEN "wait" ELSE hpc
  /\ last_build' = 0
  /\ last_mtime' = 0
  /\ UNCHANGED <<HAS_WATCHDOG, clock, queue, now, handled, mtime, current_max, wake>>
  /\ UNCHANGED <<output, outDir, caller, walk, built_pages, errors, buildNo, doneNo, prior>>
  /\ UNCHANGED <<pageVars, siteVars, edits, cwd, served>>

\* The initial build raised: nothing in watch() catches it.
WatchInitialRaised ==
  /\ wpc = "initial" /\ caller = "watch" /\ bpc = "raised"
  /\ wpc' = "failed"
  /\ UNCHANGED <<HAS_WATCHDOG, clock, queue, hpc, now, last_build, handled,
                 mtime, current_max, last_mtime, wake>>
  /\ UNCHANGED <<pageVars, siteVars, buildVars, edits, serveVars>>

Watching == wpc \in {"observe", "poll", "poll_build"}

\* A change under the site directory: the file's time is set and, with an
\* observer, an event is queued.
Save ==
  /\ Watching
  /\ \E s \in WatchSources :
       /\ HAS_WATCHDOG => Len(queue) < MaxQueue
       /\ queue' = IF HAS_WATCHDOG
                   THEN Append(queue, [src_path |-> s.src_path,
                                       is_directory |-> s.is_directory, fired |-> clock])
                   ELSE queue
       /\ mtime' = IF s.src_path \in DOMAIN mtime
                   THEN [mtime EXCEPT ![s.src_path] = clock] ELSE mtime
  /\ UNCHANGED <<HAS_WATCHDOG, wpc, clock, hpc, now, last_build, handled,
                 current_max, last_mtime, wake>>
  /\ UNCHANGED <<pageVars, siteVars, buildVars, edits, serveVars>>

Tick ==
  /\ wpc \in {"initial", "observe", "poll", "poll_build"}
  /\ clock < MaxTime
  /\ clock' = clock + 1
  /\ UNCHANGED <<HAS_WATCHDOG, wpc, queue, hpc, now, last_build, handled,
                 mtime, current_max, last_mtime, wake>>
  /\ UNCHANGED <<pageVars, siteVars, buildVars, edits, serveVars>>

\* ------------------------------------------------------------------ SSGEventHandler
\* Lines 310-316: whether on_any_event goes on to build, at time t.
Triggers(event, t, last) ==
  /\ ~event.is_directory
  /\ ~ContainsOutput(event.src_path)
  /\ ~(t - last < TicksPerSecond)

\* The observer thread hands the next event to on_any_event.
HandleEvent ==
  /\ hpc = "wait" /\ queue # <<>>
  /\ LET event == Head(queue)
         go == Triggers(event, clock, last_build)
     IN /\ queue' = Tail(queue)
        /\ handled' = Last2(Append(handled,
                        [src_path |-> event.src_path, is_directory |-> event.is_directory,
                         fired |-> event.fired,
                         due |-> clock - last_build >= TicksPerSecond,
                         triggered |-> go]))
        /\ IF go
           THEN /\ now' = clock
                /\ hpc' = "building"
                /\ StartBuild("handler")
           ELSE UNCHANGED <<now, hpc, buildVars>>
  /\ UNCHANGED <<HAS_WATCHDOG, wpc, clock, last_build, mtime, current_max, last_mtime, wake>>
  /\ UNCHANGED <<pageVars, siteVars, edits, serveVars>>

\* Line 320, after build() returned.
HandlerBuilt ==
  /\ hpc = "building" /\ caller = "handler" /\ bpc = "done"
  /\ last_build' = now
  /\ hpc' = "wait"
  /\ bpc' = "idle"
  /\ UNCHANGED <<HAS_WATCHDOG, wpc, clock, queue, now, handled,
                 mtime, current_max, last_mtime, wake>>
  /\ UNCHANGED <<output, outDir, caller, walk, built_pages, errors, buildNo, doneNo, prior>>
  /\ UNCHANGED <<pageVars, siteVars, edits, serveVars>>

\* build() raised inside on_any_event: the exception leaves the handler, line
\* 320 is not run, and it reaches the observer's dispatching thread, which is
\* the library's: it may end there or go on to the next event.
HandlerRaised ==
  /\ hpc = "building" /\ caller = "handler" /\ bpc = "raised"
  /\ hpc' \in {"dead", "wait"}
  /\ bpc' = "idle"
  /\ UNCHANGED <<HAS_WATCHDOG, wpc, clock, queue, now, last_build, handled,
                 mtime, current_max, last_mtime, wake>>
  /\ UNCHANGED <<output, outDir, caller, walk, built_pages, errors, buildNo, doneNo, prior>>
  /\ UNCHANGED <<pageVars, siteVars, edits, serveVars>>

\* ------------------------------------------------------------------ polling
\* Lines 282-299, one pass of the loop up to the call of build() or the sleep.
PollScan ==
  /\ wpc = "poll" /\ clock >= wake
  /\ LET cm == Max({0} \cup {mtime[f] : f \in Scanned})
         lm == IF last_mtime = 0 THEN cm ELSE last_mtime
     IN /\ current_max' = cm
        /\ last_mtime' = lm
        /\ IF cm > lm
           THEN /\ StartBuild("poll")
                /\ wpc' = "poll_build"
                /\ wake' = wake
           ELSE /\ wake' = clock + TicksPerSecond
                /\ UNCHANGED <<wpc, buildVars>>
  /\ UNCHANGED <<HAS_WATCHDOG, clock, queue, hpc, now, last_build, handled, mtime>>
  /\ UNCHANGED <<pageVars, siteVars, edits, serveVars>>

\* Lines 297-299, after build() returned.
PollBuilt ==
  /\ wpc = "poll_build" /\ caller = "poll" /\ bpc = "done"
  /\ last_mtime' = current_max
  /\ wake' = clock + TicksPerSecond
  /\ wpc' = "poll"
  /\ bpc' = "idle"
  /\ UNCHANGED <<HAS_WATCHDOG, clock, queue, hpc, now, last_build, handled, mtime, current_max>>
  /\ UNCHANGED <<output, outDir, caller, walk, built_pages, errors, buildNo, doneNo, prior>>
  /\ UNCHANGED <<pageVars, siteVars, edits, serveVars>>

\* build() raised in the loop: only KeyboardInterrupt is caught (line 300),
\* so the exception leaves watch() and the process ends.
PollRaised ==
  /\ wpc = "poll_build" /\ caller = "poll" /\ bpc = "raised"
  /\ wpc' = "crashed"
  /\ srv' = "dead"
  /\ UNCHANGED <<HAS_WATCHDOG, clock, queue, hpc, now, last_build, handled,
                 mtime, current_max, last_mtime, wake>>
  /\ UNCHANGED <<pageVars, siteVars, buildVars, edits, cwd, served>>

InitWatch ==
  /\ InitTree
  /\ static = {"assets"}
  /\ HAS_WATCHDOG \in BOOLEAN
  /\ wpc = "start"
  /\ clock = TicksPerSecond
  /\ queue = <<>>
  /\ hpc = "off"
  /\ now = 0
  /\ last_build = 0
  /\ handled = <<>>
  /\ mtime = [f \in Scanned |-> 1]
  /\ current_max = 0
  /\ last_mtime = 0
  /\ wake = 0
  /\ srv = "off"
  /\ cwd = 0
  /\ served = "none"
  /\ pgIn = [rel |-> <<IndexHtml>>, raw |-> Sources["page"]]
  /\ pgOut = PageError("none")

NextWatch ==
  \/ WatchStart \/ WatchSpawn \/ WatchInitialRaised
  \/ BuildStep
  \/ ServeChdir \/ Request
  \/ Save \/ Tick \/ Chmod
  \/ HandleEvent \/ HandlerBuilt \/ HandlerRaised
  \/ PollScan \/ PollBuilt \/ PollRaised

SpecWatch == InitWatch /\ [][NextWatch]_vars

\* ------------------------------------------------------------------ inputs
RECURSIVE SeqsUpTo(_, _)
SeqsUpTo(S, n) ==
  IF n = 0 THEN {<<>>}
  ELSE LET shorter == SeqsUpTo(S, n - 1)
       IN shorter \cup {Append(s, x) : s \in {q \in shorter : Len(q) = n - 1}, x \in S}

BodyTokens ==
  {Txt("Hello"), Inc("header.html"), Inc("missing.html"), Inc("loop.html"),
   Inc("a.html"), Var("title", ""), Var("author", "anon")}

FrontLines ==
  {Line("layout", Str("base.html")), Line("layout", Str("wrap.html")),
   Line("layout", Str("nope.html")), Line("layout", Str("loop.html")),
   Line("title", Str("Hi")), Line("title", <<Inc("header.html")>>),
   Line("content", Str("mine")), NoColon}

Bodies == SeqsUpTo(BodyTokens, MaxBodyLen)

Raws ==
  {[utf8 |-> TRUE, fm |-> FALSE, lines |-> <<>>, body |-> b] : b \in Bodies}
  \cup {[utf8 |-> TRUE, fm |-> TRUE, lines |-> l, body |-> b] :
          l \in SeqsUpTo(FrontLines, MaxLines), b \in Bodies}
  \cup {[utf8 |-> FALSE, fm |-> FALSE, lines |-> <<>>, body |-> <<>>]}

Dirs == {<<>>, << <<"blog">> >>, << <<"blog">>, <<"post1">> >>}
HtmlNames == {IndexHtml, <<"post1", "html">>, <<"about", "html">>, <<"a", "b", "html">>}
RelPaths == {d \o <<n>> : d \in Dirs, n \in HtmlNames}

NoPage == PageError("none")

\* ------------------------------------------------------------------ the page builder alone
\* The path and the text of a file are independent inputs of build_page: one
\* of them varies over its whole set while the other is held fixed.
PlainRaw == [utf8 |-> TRUE, fm |-> FALSE, lines |-> <<>>, body |-> Str("Hello")]
RootIndex == <<IndexHtml>>

InitPage ==
  /\ pgIn \in [rel : RelPaths, raw : {PlainRaw}] \cup [rel : {RootIndex}, raw : Raws]
  /\ pgOut = NoPage
  /\ InitTree
  /\ InitIdle
  /\ static = {}

ApplyBuildPage ==
  /\ pgOut = NoPage
  /\ pgOut' = build_page(pgIn.rel, pgIn.raw)
  /\ UNCHANGED <<pgIn, siteVars, buildVars, edits, watchVars, serveVars>>

NextPage == ApplyBuildPage

SpecPage == InitPage /\ [][NextPage]_vars

\* ================================================================== claims

\* ------------------------------------------------------------------ C1
PageOf(p) == build_page(p, Sources[content_dir[p]])
HtmlFiles == {p \in DOMAIN content_dir : EndsWithHtml(PathName(p))}
GoodFiles == {p \in HtmlFiles : PageOf(p).err = ""}

ExampleRaw ==
  [utf8 |-> TRUE, fm |-> TRUE,
   lines |-> <<Line("layout", Str("base.html")), Line("title", Str("Hi"))>>,
   body |-> Str("Hello")]

\* C2: for a page whose metadata names an existing layout, the final HTML is
\* the layout's raw text with includes expanded and then variables substituted,
\* the variable `content` holding the page body with its own includes expanded
\* and then its variables substituted; the example of the specification
\* renders to "Hello - Hi".
C2_LayoutRendering ==
  (pgOut # NoPage /\ pgIn.raw.utf8 /\ pgOut.err = "") =>
    LET md == parse_frontmatter(pgIn.raw).metadata
        body == parse_frontmatter(pgIn.raw).body
    IN /\ LayoutFound(md) =>
            LET inner == process_variables(process_includes(body).out, md)
                layoutText == layouts_dir[FileNameOf(md["layout"])]
            IN /\ pgOut.meta = Put(md, "content", inner)
               /\ pgOut.html = process_variables(process_includes(layoutText).out,
                                                 Put(md, "content", inner))
       /\ pgIn.raw = ExampleRaw => pgOut.html = <<Txt("Hello"), Txt(" - "), Txt("Hi")>>

\* A page with a layout that includes a fragment, whose body includes the
\* same fragment: the fragment's variable is substituted in both passes.
C2_Witness ==
  /\ pgOut # NoPage /\ pgOut.err = ""
  /\ pgIn.raw.fm
  /\ pgIn.raw.lines = <<Line("layout", Str("wrap.html")), Line("title", Str("Hi"))>>
  /\ pgIn.raw.body = <<Inc("header.html"), Var("author", "anon")>>
  /\ pgOut.html = <<Txt("<h1>"), Txt("Hi"), Txt("<h1>"), Txt("Hi"), Txt("anon")>>

\* ------------------------------------------------------------------ C3
\* C3: a content file named index.html keeps its relative path; any other
\* dir/name.html goes to dir/name/index.html.
C3_OutputPathMapping ==
  (pgOut # NoPage /\ pgOut.err = "") =>
    LET rel == pgIn.rel
        name == PathName(rel)
    IN /\ name = IndexHtml => pgOut.path = rel
       /\ name # IndexHtml =>
            pgOut.path = Parent(rel) \o << SubSeq(name, 1, Len(name) - 1), IndexHtml >>
       /\ rel = << <<"blog">>, <<"post1", "html">> >> =>
            pgOut.path = << <<"blog">>, <<"post1">>, IndexHtml >>
       /\ rel = << <<"blog">>, IndexHtml >> => pgOut.path = << <<"blog">>, IndexHtml >>
       /\ rel = <<IndexHtml>> => pgOut.path = <<IndexHtml>>

C3_Witness ==
  /\ pgIn.rel = << <<"blog">>, <<"post1", "html">> >>
  /\ pgOut.err = ""
  /\ pgOut.path = << <<"blog">>, <<"post1">>, IndexHtml >>

\* ------------------------------------------------------------------ C5
IncludeNames(text) == {text[i].a : i \in {j \in DOMAIN text : text[j].t = "inc"}}

RECURSIVE Reach(_)
Reach(names) ==
  LET more == names \cup UNION {IncludeNames(layouts_dir[n]) : n \in names \cap DOMAIN layouts_dir}
  IN IF more = names THEN names ELSE Reach(more)

OnCycle(n) == n \in DOMAIN layouts_dir /\ n \in Reach(IncludeNames(layouts_dir[n]))
ReachesCycle(text) == \E n \in Reach(IncludeNames(text)) : OnCycle(n)

\* C5: when the text of a page reaches an include cycle, process_includes stops
\* at its depth guard and the page fails with a TemplateCycleError.
C5_CycleRaisesTemplateCycleError ==
  (pgOut # NoPage /\ pgIn.raw.utf8 /\ ReachesCycle(pgIn.raw.body)) =>
    pgOut.err = "TemplateCycleError"

\* ------------------------------------------------------------------ C6
\* C6: when a build has completed, every file of the output tree was written
\* by that build: the pages are pages of content files that exist, assets and
\* extras are those of the site directory, and nothing is left of an earlier
\* build.
C6_NoStaleArtifacts ==
  bpc = "done" =>
    \A q \in DOMAIN output :
      /\ output[q].build = buildNo
      /\ output[q].kind = "page" => \E p \in GoodFiles : output_rel_path(p) = q
      /\ output[q].kind = "asset" => "assets" \in static
      /\ output[q].kind = "extra" => "extra" \in static
      /\ output[q].kind = "sitemap" => q = SitemapPath

\* A second build has completed and a path of the tree it replaced is gone.
C6_Witness ==
  /\ bpc = "done"
  /\ buildNo >= 2
  /\ \E q \in prior : q \notin DOMAIN output

\* ------------------------------------------------------------------ C8
\* C8: within one build, two distinct content files are never written to the
\* same output path: the page list holds no path twice.
C8_DisjointOutputPaths ==
  \A i, j \in DOMAIN built_pages :
    i # j => built_pages[i].path # built_pages[j].path

\* ------------------------------------------------------------------ C4
FileOutsideOutput(h) == ~h.is_directory /\ ~InsideOutputDir(h.src_path)

\* No build has raised: every build started has completed or is running.
EveryBuildCompleted ==
  /\ bpc # "raised"
  /\ buildNo = doneNo + (IF bpc \in {"clean", "walk", "sitemap"} THEN 1 ELSE 0)

\* C4: of two change events on non-output files fired less than one second
\* apart, the first of which starts a build (that completes), only the first
\* triggers a build.
C4_DebounceOneRebuild ==
  (Len(handled) = 2 /\ EveryBuildCompleted) =>
    ((/\ FileOutsideOutput(handled[1])
      /\ FileOutsideOutput(handled[2])
      /\ handled[2].fired - handled[1].fired < TicksPerSecond
      /\ handled[1].triggered)
     => ~handled[2].triggered)

\* ------------------------------------------------------------------ C9
\* C9: every event whose path is not inside the output directory and that is
\* handled at least one second after the last triggered build causes a build.
C9_EveryDueEventBuilds ==
  \A i \in DOMAIN handled :
    (~InsideOutputDir(handled[i].src_path) /\ handled[i].due) => handled[i].triggered

\* ------------------------------------------------------------------ C7
\* C7: the watch loop never ends because a rebuild it triggered raised.
C7_WatchLoopSurvives == wpc # "crashed"

\* ------------------------------------------------------------------ C10
\* C10: with no build in progress (and none that raised), a request reads the
\* tree written by the most recently completed build.
C10_ServesLatestBuild ==
  EveryBuildCompleted => served \in {"none", "busy", "latest"}

====
